---------------------------- MODULE Spec2Model ----------------------------
(***************************************************************************)
(* Episodic memory of the stock agent: MemoryController and its three      *)
(* stores (src/memory/stores.py) over the Episode model                    *)
(* (src/memory/memorymodel.py).                                            *)
(*                                                                         *)
(* Persistent state is the three files of one agent directory: the         *)
(* catalog table (memory_index.json), the vector index (faiss_index.bin)   *)
(* and the pending-episode table (current_episode_store.json).  The state  *)
(* of one live MemoryController is its in-memory vector index.             *)
(***************************************************************************)
EXTENDS Integers, Sequences, FiniteSets, TLC

(***************************************************************************)
(* Bounds of the model.                                                    *)
(***************************************************************************)
\* most documents the catalog table and the pending-episode table are let
\* hold together
MaxDocs == 3
\* largest best_k a similarity query is made with
MaxK == 2

(***************************************************************************)
(* Values.                                                                 *)
(***************************************************************************)
\* Python's None
None == "py_None"
\* JSON null, as model_dump_json writes an absent Optional field
JNull == <<"null">>

\* unique_id values of episodes
Uids == {"u1"}
\* what an experience perceived: stands for its date, news and portfolio
Perceptions == {"p1"}
\* Action of an experience (by its action_type), or None
Actions == {None, "BUY"}
\* Reflection of an episode, or None
Reflections == {None, "r1"}

\* memorymodel.Experience
Experience == [perception : Perceptions, action : Actions]
\* memorymodel.Episode
Episode == [unique_id : Uids, experience : Experience, reflection : Reflections]

\* the episodes calls are made with: one as run_action creates it (no action
\* yet), one as run_action saves it (an action, no reflection), one as
\* run_reflection finishes it (an action and a reflection)
Episodes ==
    {e \in Episode : e.experience.action = None => e.reflection = None}

VARIABLES
    catalogFile,     \* memory_index.json: doc_id -> JSON document
    slotFile,        \* current_episode_store.json: doc_id -> JSON document
    indexMem,        \* embeddings_store.index: sequence of [vec, id]
    indexFile,       \* faiss_index.bin: [state, entries]
    lastOp,          \* the operation called last
    lastArg,         \* its arguments
    lastRet,         \* what it returned or raised
    pendingSaved,    \* history: the episode saved last since the slot was cleared
    embedCalls,      \* calls the last operation made to get_text_embedding
    lastVector,      \* the vector get_text_embedding returned to it, <<>> if none
    issuedIds,       \* history: the ids MemoryIndex.save_episode returned, in order
    agent,           \* Agent.run: where it stands and the episode it holds
    portfolio,       \* a Portfolio: cash, positions, transaction history
    lastCall,        \* the call made last on the portfolio, and how it ended
    succeeded,       \* history: type and symbol of the calls that returned
    rendering,       \* an episode in full and the text str() gave for it
    uuidDefault,     \* the default of Episode.unique_id in the running process
    createdIds,      \* history: the unique_id of every episode created
    portfolioFile,   \* the portfolio file of the agent: <<>> or <<portfolio>>
    controllers,     \* a second MemoryController on the same storage
    disk             \* the agent the controller is for, the other directories

vars == <<catalogFile, slotFile, indexMem, indexFile,
          lastOp, lastArg, lastRet, pendingSaved, embedCalls, lastVector,
          issuedIds, agent,
          portfolio, lastCall, succeeded, rendering, uuidDefault, createdIds,
          portfolioFile, controllers, disk>>

stores == <<catalogFile, slotFile, indexMem, indexFile>>

\* the state of the memory of one agent and of its run
memory == <<catalogFile, slotFile, indexMem, indexFile, lastOp, lastArg,
            lastRet, pendingSaved, embedCalls, lastVector, issuedIds, agent>>

\* the state the MemoryController has no part in
ledger == <<portfolio, lastCall, succeeded>>

\* what is beside the one controller, portfolio and process of an agent
beside == <<portfolioFile, controllers, disk>>

outside == <<ledger, rendering, uuidDefault, createdIds, beside>>


(***************************************************************************)
(* Serialisation of an episode (pydantic model_dump_json, json.loads,      *)
(* model_validate) and its rendering to text (__str__).                    *)
(***************************************************************************)
\* the JSON of a nested value (a Perception with its Portfolio, an Action
\* with its Transaction, a Reflection with its Position), all fields kept
PayloadDump(p) ==
    <<"json", p>>

\* the nested value validated back from its JSON
PayloadValidate(d) ==
    d[2]

\* an Optional field as JSON: None is written as null
ToJson(v) ==
    IF v = None THEN JNull ELSE PayloadDump(v)

\* mutant of FromJson: null is read back as a value, not as None
FromJson_null_as_value(v) ==
    IF v = JNull THEN "null" ELSE PayloadValidate(v)

\* an Optional field read back: null is None
FromJson(v) ==
    IF v = JNull THEN None ELSE PayloadValidate(v)

\* json.loads(episode.model_dump_json()): the document a table stores
ModelDump(e) ==
    [unique_id  |-> e.unique_id,
     experience |-> [perception |-> PayloadDump(e.experience.perception),
                     action     |-> ToJson(e.experience.action)],
     reflection |-> ToJson(e.reflection)]

\* Episode.model_validate(doc) of a stored document
ModelValidate(doc) ==
    [unique_id  |-> doc.unique_id,
     experience |-> [perception |-> PayloadValidate(doc.experience.perception),
                     action     |-> FromJson(doc.experience.action)],
     reflection |-> FromJson(doc.reflection)]

\* str(experience): date, news and portfolio stand as the perception; an
\* absent action is rendered as the text None
ExperienceStr(x) ==
    <<"Perception:", x.perception,
      "Action:", IF x.action # None THEN x.action ELSE "None">>

\* str(reflection)
ReflectionStr(r) ==
    <<"Reflection:", r>>

\* str(episode): the text that is embedded; unique_id is not part of it
EpisodeStr(e) ==
    <<"EXPERIENCE:">> \o ExperienceStr(e.experience) \o <<"REFLECTION:">>
        \o (IF e.reflection # None THEN ReflectionStr(e.reflection) ELSE <<"None">>)

(***************************************************************************)
(* The embedding provider and the vector index (faiss IndexIDMap over      *)
(* IndexFlatL2).                                                           *)
(***************************************************************************)
\* EmbeddingsStore's dimension, scaled down from 1536
dimension == 2

\* get_text_embedding(text): a fixed function of the text, of the index's
\* dimension
get_text_embedding(text) ==
    <<IF text[3] = "p1" THEN 0 ELSE 3,
      (IF text[5] = "None" THEN 0 ELSE 1) + (IF text[7] = "None" THEN 0 ELSE 2)>>

\* squared Euclidean distance over the index's dimension, the metric of
\* IndexFlatL2(dimension)
L2sqr(u, v) ==
    LET d(i) == u[i] - v[i]
        RECURSIVE sum(_)
        sum(i) == IF i = 0 THEN 0 ELSE d(i) * d(i) + sum(i - 1)
    IN  sum(dimension)

\* mutant of add_with_ids: index.add, which numbers the entries itself
add_sequence_number(index, vec, id) ==
    Append(index, [vec |-> vec, id |-> Len(index)])

\* index.add_with_ids of one vector: the entry is appended under the id given
add_with_ids(index, vec, id) ==
    Append(index, [vec |-> vec, id |-> id])

\* label faiss gives a neighbour that does not exist
NoNeighbour == -1

\* index.search(vec, k): the id sequences, of length k, faiss may answer: the
\* min(n, k) nearest entries by ascending distance, entries at the same
\* distance in any order, then NoNeighbour labels up to k
search(index, vec, k) ==
    LET n == Len(index)
        m == IF n < k THEN n ELSE k
        dist(j) == L2sqr(index[j].vec, vec)
        \* the ways to take c entries out of those at the positions left, the
        \* nearest first
        RECURSIVE picks(_, _)
        picks(left, c) ==
            IF c = 0 THEN {<<>>}
            ELSE UNION {{<<j>> \o rest : rest \in picks(left \ {j}, c - 1)} :
                        j \in {j \in left : \A h \in left : dist(j) <= dist(h)}}
    IN  {[i \in 1..k |-> IF i <= m THEN index[p[i]].id ELSE NoNeighbour] :
            p \in picks(1..n, m)}

\* the index file when nothing was written yet
NoFile == [state |-> "absent", entries |-> <<>>]

\* the index file after a write that did not finish
CorruptFile == [state |-> "corrupt", entries |-> <<>>]

\* mutant of write_index: nothing reaches the file
write_index_skipped(index) ==
    NoFile

\* faiss.write_index(index, path)
write_index(index) ==
    [state |-> "ok", entries |-> index]

\* EmbeddingsStore.__init__: the index read from the file, a new empty index
\* when reading raises
EmbeddingsStoreInit(file) ==
    IF file.state = "ok" THEN file.entries ELSE <<>>

(***************************************************************************)
(* TinyDB tables: documents under integer ids.                             *)
(***************************************************************************)
\* a table with no documents
EmptyTable == <<>>

MaxOf(S) ==
    CHOOSE x \in S : \A y \in S : y <= x

\* Table._get_next_id: one above the largest id stored, 1 for an empty table
\* (the id a table caches after an insert is this one, and truncate drops it)
next_id(table) ==
    IF DOMAIN table = {} THEN 1 ELSE MaxOf(DOMAIN table) + 1

\* db.insert(doc) under the id next_id gave
insert(table, id, doc) ==
    [i \in DOMAIN table \cup {id} |-> IF i = id THEN doc ELSE table[i]]

\* db.all(): the documents in the order of the table
all(table) ==
    LET ids == DOMAIN table
        RECURSIVE list(_)
        list(S) == IF S = {} THEN <<>>
                   ELSE LET top == MaxOf(S) IN Append(list(S \ {top}), table[top])
    IN  list(ids)

\* len(db)
len(table) ==
    Cardinality(DOMAIN table)

\* mutant of truncate: only the last document is removed
truncate_last(table) ==
    IF DOMAIN table = {} THEN table
    ELSE [i \in DOMAIN table \ {MaxOf(DOMAIN table)} |-> table[i]]

\* mutant of truncate: the documents stay
truncate_nothing(table) ==
    table

\* db.truncate(): the table with every document removed
truncate(table) ==
    EmptyTable

(***************************************************************************)
(* What a call was given and what it gave back.                            *)
(***************************************************************************)
\* arguments of a call: the episode (if any), best_k (0: none) and
\* remove_current (FALSE: none)
Args(episode, best_k, remove_current) ==
    [episode |-> episode, best_k |-> best_k, remove_current |-> remove_current]

\* a call that returned: kind is "None", "Episode" or "list", val the episodes
Returned(kind, val, lookups) ==
    [kind |-> kind, val |-> val, err |-> None, lookups |-> lookups]

\* a call that raised err
Raised(err, lookups) ==
    [kind |-> "raise", val |-> <<>>, err |-> err, lookups |-> lookups]

\* where an injected failure stops save_finished_episode: nowhere, in the
\* embedding call, in write_index, in the slot truncate
StopPoints == {"none", "embed", "write", "truncate"}

(***************************************************************************)
(* The stores' methods.                                                    *)
(***************************************************************************)
\* mutant of save_episode: the insert never reaches the file
save_episode_unwritten(table, id, episode) ==
    table

\* MemoryIndex.save_episode: the table after the insert
save_episode(table, id, episode) ==
    insert(table, id, ModelDump(episode))

\* MemoryIndex.get_episode: the document under the id, None when there is none
get_episode(table, episode_id) ==
    IF episode_id \in DOMAIN table THEN <<table[episode_id]>> ELSE <<>>

\* mutant of dimension_mismatch: the length of the vector is not looked at
dimension_unchecked(embedding) ==
    FALSE

\* the assertion of add_with_ids: the vector is not of the index's dimension
dimension_mismatch(embedding) ==
    Len(embedding) # dimension

\* EmbeddingsStore.save_embedding: the index in memory after add_with_ids
save_embedding(index, embedding, episode_id) ==
    add_with_ids(index, embedding, episode_id)

\* mutant of get_similar_embeddings: the first best_k entries as they were
\* added, whatever their distance
first_embeddings(index, embedding, best_k) ==
    {[i \in 1..best_k |-> IF i <= Len(index) THEN index[i].id ELSE NoNeighbour]}

\* EmbeddingsStore.get_similar_embeddings: the ids faiss may answer
get_similar_embeddings(index, embedding, best_k) ==
    search(index, embedding, best_k)

\* mutant of get_memory_count: the index entries are counted
index_count ==
    Len(indexMem)

\* MemoryController.get_memory_count
get_memory_count ==
    len(catalogFile)

\* mutant of current_episode: the first document is read, not the last
current_episode_first(table) ==
    LET docs == all(table)
    IN  IF docs # <<>>
        THEN Returned("Episode", <<ModelValidate(docs[1])>>, <<>>)
        ELSE Returned("None", <<>>, <<>>)

\* what get_current_episode returns for a pending table: the last document
\* validated, None when the table is empty
current_episode(table) ==
    LET docs == all(table)
    IN  IF docs # <<>>
        THEN Returned("Episode", <<ModelValidate(docs[Len(docs)])>>, <<>>)
        ELSE Returned("None", <<>>, <<>>)

\* mutant of similar_episodes: an id without a document is left out of the
\* list
similar_episodes_skipping(table, ids) ==
    LET RECURSIVE found(_)
        found(i) ==
            IF i = 0 THEN <<>>
            ELSE IF get_episode(table, ids[i]) = <<>> THEN found(i - 1)
            ELSE Append(found(i - 1), ModelValidate(get_episode(table, ids[i])[1]))
    IN  Returned("list", found(Len(ids)), ids)

\* the list comprehension of get_similar_episodes over the ids found: each id
\* is looked up in the catalog and validated, up to the first id without a
\* document, where model_validate raises
similar_episodes(table, ids) ==
    LET missing == {i \in 1..Len(ids) : get_episode(table, ids[i]) = <<>>}
        first == CHOOSE i \in missing : \A j \in missing : i <= j
    IN  IF missing = {}
        THEN Returned("list",
                      [i \in 1..Len(ids) |-> ModelValidate(get_episode(table, ids[i])[1])],
                      ids)
        ELSE Raised("ValidationError", SubSeq(ids, 1, first))

\* no Agent.run is under way and none was: pc is where the run stands,
\* episode the episode it holds, read what get_current_episode gave it,
\* finalized the catalog id of the episode it finalized, calls the calls it
\* made to the MemoryController, in order, records the number of catalog
\* records written so far for the episode that is pending
NoRun ==
    [pc |-> "idle", episode |-> <<>>, read |-> <<>>, finalized |-> <<>>,
     calls |-> <<>>, records |-> 0]

(***************************************************************************)
(* The portfolio (src/portfolio.py).  Python floats are modelled exactly:  *)
(* a share quantity is a whole number of 1/Scale shares and a cash amount  *)
(* a whole number of 1/Scale euros, so that amount / price is exact for    *)
(* every price of Prices; a buy price is a fraction <<n, d>> in lowest     *)
(* terms.  The fields of Position and Portfolio that are only reported     *)
(* (position_value, the changes since start and since update, the update   *)
(* times) are left out.                                                    *)
(***************************************************************************)
MaxAmount == 3
MaxCalls == 2
InitialCash == 3

Scale == 2
Symbols == {"AAPL", "MSFT"}
Prices == {1, 2}
Amounts == 1 .. MaxAmount

\* market.get_price_for_symbol: the current price, or None for a symbol the
\* market does not know
Quote(price) == [found |-> TRUE, price |-> price]
NoQuote == [found |-> FALSE, price |-> 0]
get_price_for_symbol == {Quote(price) : price \in Prices} \cup {NoQuote}

Euros(amount) == amount * Scale
Shares(amount, price) == (amount * Scale) \div price
Value(quantity, price) == quantity * price

RECURSIVE GCD(_, _)
GCD(a, b) == IF b = 0 THEN a ELSE GCD(b, a % b)

Abs(x) == IF x < 0 THEN -x ELSE x

\* n / d in lowest terms, the denominator positive
Fraction(n, d) ==
    LET g == GCD(Abs(n), Abs(d))
        s == IF d < 0 THEN -1 ELSE 1
    IN  <<(s * n) \div g, (s * d) \div g>>
Zero == <<0, 1>>

\* Position.__init__
Position(symbol, price, quantity) ==
    [symbol |-> symbol, buy_price |-> Fraction(price, 1), quantity |-> quantity]

Done(result, ret) == [result |-> result, ret |-> ret]

\* Position.update_position: the relative change since start divides by the
\* buy price
update_position(position, new_price) ==
    IF position.buy_price = Zero
    THEN Done(position, "ZeroDivisionError")
    ELSE Done(position, "ok")

\* Position.buy: the buy price becomes the average cost of a share
Position_buy(position, price, quantity) ==
    LET n == position.buy_price[1]
        d == position.buy_price[2]
        total == position.quantity + quantity
        added == [position EXCEPT !.quantity = total]
    IN  IF total = 0
        THEN Done(added, "ZeroDivisionError")
        ELSE update_position(
                 [added EXCEPT !.buy_price =
                     Fraction(n * position.quantity + price * quantity * d,
                              d * total)],
                 price)

\* Position.sell
Position_sell(position, price, quantity) ==
    IF quantity > position.quantity
    THEN Done(position, "ValueError")
    ELSE LET left == position.quantity - quantity
             sold == [position EXCEPT !.quantity = left]
         IN  update_position(
                 IF left = 0 THEN [sold EXCEPT !.buy_price = Zero] ELSE sold,
                 price)

\* Transaction.__init__
Transaction(transaction_type, symbol, price, quantity, cash, comment) ==
    [transaction_type |-> transaction_type, symbol |-> symbol,
     price |-> price, quantity |-> quantity,
     cash_after_transaction |-> cash, comment |-> comment]

log_front(history, transaction) ==
    <<transaction>> \o history

\* TransactionHistory.log
log(history, transaction) ==
    Append(history, transaction)

NoPositions == [s \in {} |-> Zero]

\* Portfolio.__init__
NewPortfolio(initial_cash) ==
    [total_cash |-> Euros(initial_cash), positions |-> NoPositions,
     transaction_history |-> <<>>]

put(positions, symbol, position) ==
    [s \in DOMAIN positions \cup {symbol} |->
        IF s = symbol THEN position ELSE positions[s]]

del(positions, symbol) ==
    [s \in DOMAIN positions \ {symbol} |-> positions[s]]

buy_on_credit(self, symbol, investment_amount, quote) ==
    LET shares_to_buy == Shares(investment_amount, quote.price)
    IN  IF ~quote.found THEN Done(self, "ValueError")
        ELSE Done([self EXCEPT
                      !.total_cash = @ - Euros(investment_amount),
                      !.positions = put(@, symbol,
                          Position(symbol, quote.price, shares_to_buy))],
                  "ok")

\* Portfolio.buy, the market answering quote
buy(self, symbol, investment_amount, quote) ==
    IF ~quote.found THEN Done(self, "ValueError")
    ELSE IF Euros(investment_amount) > self.total_cash
    THEN Done(self, "ValueError")
    ELSE
    LET price == quote.price
        shares_to_buy == Shares(investment_amount, price)
        cash == self.total_cash - Euros(investment_amount)
        held == symbol \in DOMAIN self.positions
        bought == IF held
                  THEN Position_buy(self.positions[symbol], price, shares_to_buy)
                  ELSE Done(Position(symbol, price, shares_to_buy), "ok")
        paid == [self EXCEPT !.total_cash = cash,
                             !.positions = put(@, symbol, bought.result)]
    IN  IF bought.ret # "ok" THEN Done(paid, bought.ret)
        ELSE Done([paid EXCEPT !.transaction_history =
                      log(@, Transaction("BUY", symbol, price, shares_to_buy,
                              cash, IF held THEN "" ELSE "position opened"))],
                  "ok")

\* Portfolio.sell, the market answering quote
sell(self, symbol, liquidation_amount, quote) ==
    IF symbol \notin DOMAIN self.positions THEN Done(self, "ValueError")
    ELSE IF ~quote.found THEN Done(self, "ValueError")
    ELSE
    LET price == quote.price
        position == self.positions[symbol]
        shares_to_sell == Shares(liquidation_amount, price)
        sold == Position_sell(position, price, shares_to_sell)
        left == sold.result
        reduced == [self EXCEPT !.positions = put(@, symbol, left)]
        closed == Value(left.quantity, price) < Scale
        cash == self.total_cash + Euros(liquidation_amount)
                    + (IF closed THEN Value(left.quantity, price) ELSE 0)
    IN  IF shares_to_sell > position.quantity THEN Done(self, "ValueError")
        ELSE IF sold.ret # "ok" THEN Done(reduced, sold.ret)
        ELSE Done([reduced EXCEPT
                      !.total_cash = cash,
                      !.positions = IF closed THEN del(@, symbol) ELSE @,
                      !.transaction_history =
                          log(@, Transaction("SELL", symbol, price,
                                  IF closed THEN left.quantity ELSE shares_to_sell,
                                  cash,
                                  IF closed THEN "position closed" ELSE ""))],
                  "ok")

\* Portfolio.close_position, the market answering quote: None * quantity is
\* a TypeError
close_position(self, symbol, quote) ==
    IF symbol \notin DOMAIN self.positions THEN Done(self, "ValueError")
    ELSE IF ~quote.found THEN Done(self, "TypeError")
    ELSE
    LET quantity == self.positions[symbol].quantity
        cash == self.total_cash + Value(quantity, quote.price)
    IN  Done([self EXCEPT
                 !.total_cash = cash,
                 !.positions = del(@, symbol),
                 !.transaction_history =
                     log(@, Transaction("SELL", symbol, quote.price, quantity,
                             cash, "position closed"))],
             "ok")

(***************************************************************************)
(* Initial state: an agent directory with no files, and a MemoryController *)
(* constructed on it.                                                      *)
(***************************************************************************)
InitMemory ==
    /\ catalogFile = EmptyTable
    /\ slotFile = EmptyTable
    /\ indexFile = NoFile
    /\ indexMem = EmbeddingsStoreInit(NoFile)
    /\ lastOp = "__init__"
    /\ lastArg = Args(<<>>, 0, FALSE)
    /\ lastRet = Returned("None", <<>>, <<>>)
    /\ pendingSaved = <<>>
    /\ embedCalls = 0
    /\ lastVector = <<>>
    /\ issuedIds = <<>>
    /\ agent = NoRun

\* no call made yet on the portfolio
NoCall ==
    [op |-> "__init__", method_name |-> "", symbol |-> "", amount |-> 0,
     quote |-> NoQuote, ret |-> "ok"]

\* the portfolio as Portfolio(initial_cash) makes it
InitLedger ==
    /\ portfolio = NewPortfolio(InitialCash)
    /\ lastCall = NoCall
    /\ succeeded = <<>>

\* nothing rendered, no episode created
NoRendering == [episode |-> <<>>, text |-> <<>>]

\* the names of the agents, and the directory MemoryController(agent_name)
\* keeps its three files in
AgentNames == {"agent01", "agent02"}

local_path_shared(agent_name) ==
    <<"agents">>

\* MemoryController.__init__: self.local_path
local_path(agent_name) ==
    <<"agents", agent_name>>

\* a directory in which no file has been written
EmptyDir ==
    [catalogFile |-> EmptyTable, slotFile |-> EmptyTable, indexFile |-> NoFile]

\* Agent.create has written the portfolio file; a second controller has
\* been constructed on the same empty storage and has inserted nothing;
\* the controller is the one of agent01 and no directory has files
InitBeside ==
    /\ portfolioFile = <<NewPortfolio(InitialCash)>>
    /\ controllers = [cached |-> <<>>,
                      other |-> [index |-> EmbeddingsStoreInit(NoFile),
                                 cached |-> <<>>]]
    /\ disk = [name |-> "agent01",
               dirs |-> [p \in {local_path(n) : n \in AgentNames} |-> EmptyDir]]

Init ==
    /\ InitMemory
    /\ InitLedger
    /\ rendering = NoRendering
    /\ uuidDefault = 0
    /\ createdIds = <<>>
    /\ InitBeside

(***************************************************************************)
(* MemoryController.__init__ in a new process, on the files as they are.   *)
(***************************************************************************)
MemoryControllerInit ==
    /\ indexMem' = EmbeddingsStoreInit(indexFile)
    /\ lastOp' = "__init__"
    /\ lastArg' = Args(<<>>, 0, FALSE)
    /\ lastRet' = Returned("None", <<>>, <<>>)
    /\ embedCalls' = 0
    /\ lastVector' = <<>>
    /\ UNCHANGED <<catalogFile, slotFile, indexFile, pendingSaved, issuedIds>>

(***************************************************************************)
(* MemoryController.save_current_episode(episode).                         *)
(***************************************************************************)
\* mutant of save_current_episode: the episode is written to the catalog too
save_current_episode_catalogued(episode) ==
    /\ len(catalogFile) + len(slotFile) + 1 < MaxDocs
    /\ lastOp' = "save_current_episode"
    /\ lastArg' = Args(<<episode>>, 0, FALSE)
    /\ slotFile' = insert(slotFile, next_id(slotFile), ModelDump(episode))
    /\ catalogFile' = save_episode(catalogFile, next_id(catalogFile), episode)
    /\ pendingSaved' = <<episode>>
    /\ lastRet' = Returned("None", <<>>, <<>>)
    /\ embedCalls' = 0
    /\ lastVector' = <<>>
    /\ UNCHANGED <<indexMem, indexFile, issuedIds>>

save_current_episode(episode) ==
    LET id == next_id(slotFile)
    IN  /\ len(catalogFile) + len(slotFile) < MaxDocs
        /\ lastOp' = "save_current_episode"
        /\ lastArg' = Args(<<episode>>, 0, FALSE)
        /\ slotFile' = insert(slotFile, id, ModelDump(episode))
        /\ pendingSaved' = <<episode>>
        /\ lastRet' = Returned("None", <<>>, <<>>)
        /\ embedCalls' = 0
        /\ lastVector' = <<>>
        /\ UNCHANGED <<catalogFile, indexMem, indexFile, issuedIds>>

(***************************************************************************)
(* MemoryController.save_finished_episode(episode, remove_current), run to *)
(* its end or to the step where the injected failure raises.               *)
(***************************************************************************)
save_finished_episode(episode, remove_current, stop) ==
    LET episode_id == next_id(catalogFile)
        text_embedding == get_text_embedding(EpisodeStr(episode))
        \* what the embedding call returned: the embedding, or under the fault
        \* "dimension" a vector one component longer
        embedding == IF stop = "dimension" THEN Append(text_embedding, 0)
                     ELSE text_embedding
        index == save_embedding(indexMem, embedding, episode_id)
        embedded == stop # "embed" /\ ~dimension_mismatch(embedding)
        written == embedded /\ stop # "write"
        truncated == written /\ remove_current /\ stop # "truncate"
    IN  /\ len(catalogFile) + len(slotFile) < MaxDocs
        /\ Len(indexMem) < MaxDocs
        /\ stop = "truncate" => remove_current
        /\ lastOp' = "save_finished_episode"
        /\ lastArg' = Args(<<episode>>, 0, remove_current)
        /\ catalogFile' = save_episode(catalogFile, episode_id, episode)
        /\ indexMem' = IF embedded THEN index ELSE indexMem
        /\ IF written THEN indexFile' = write_index(index)
           ELSE IF embedded THEN indexFile' \in {indexFile, CorruptFile}
           ELSE indexFile' = indexFile
        /\ slotFile' = IF truncated THEN truncate(slotFile) ELSE slotFile
        /\ pendingSaved' = IF truncated THEN <<>> ELSE pendingSaved
        /\ lastRet' = CASE stop = "none" -> Returned("None", <<>>, <<>>)
                        [] stop = "embed" -> Raised("APIError", <<>>)
                        [] dimension_mismatch(embedding) -> Raised("AssertionError", <<>>)
                        [] stop = "dimension" -> Returned("None", <<>>, <<>>)
                        [] OTHER -> Raised("OSError", <<>>)
        /\ embedCalls' = 1
        /\ lastVector' = IF stop = "embed" THEN <<>> ELSE embedding
        /\ issuedIds' = Append(issuedIds, episode_id)

(***************************************************************************)
(* MemoryController.get_current_episode().                                 *)
(***************************************************************************)
\* mutant of get_current_episode: the episode read is taken out of the slot
get_current_episode_popping ==
    /\ lastOp' = "get_current_episode"
    /\ lastArg' = Args(<<>>, 0, FALSE)
    /\ lastRet' = current_episode(slotFile)
    /\ embedCalls' = 0
    /\ lastVector' = <<>>
    /\ slotFile' = truncate(slotFile)
    /\ pendingSaved' = <<>>
    /\ UNCHANGED <<catalogFile, indexMem, indexFile, issuedIds>>

get_current_episode ==
    /\ lastOp' = "get_current_episode"
    /\ lastArg' = Args(<<>>, 0, FALSE)
    /\ lastRet' = current_episode(slotFile)
    /\ embedCalls' = 0
    /\ lastVector' = <<>>
    /\ UNCHANGED <<stores, pendingSaved, issuedIds>>

(***************************************************************************)
(* MemoryController.get_similar_episodes(episode, best_k).                 *)
(***************************************************************************)
get_similar_episodes(episode, best_k) ==
    /\ lastOp' = "get_similar_episodes"
    /\ lastArg' = Args(<<episode>>, best_k, FALSE)
    /\ IF get_memory_count = 0
       THEN /\ lastRet' = Returned("None", <<>>, <<>>)
            /\ embedCalls' = 0
            /\ lastVector' = <<>>
       ELSE /\ \E episode_ids \in get_similar_embeddings(
                    indexMem, get_text_embedding(EpisodeStr(episode)), best_k) :
                lastRet' = similar_episodes(catalogFile, episode_ids)
            /\ embedCalls' = 1
            /\ lastVector' = get_text_embedding(EpisodeStr(episode))
    /\ UNCHANGED <<stores, pendingSaved, issuedIds>>

(***************************************************************************)
(* MemoryController.get_memory_count().                                    *)
(***************************************************************************)
MemoryController_get_memory_count ==
    /\ lastOp' = "get_memory_count"
    /\ lastArg' = Args(<<>>, 0, FALSE)
    /\ lastRet' = Returned("int", <<get_memory_count>>, <<>>)
    /\ embedCalls' = 0
    /\ lastVector' = <<>>
    /\ UNCHANGED <<stores, pendingSaved, issuedIds>>

(***************************************************************************)
(* MemoryIndex.truncate() on the controller's catalog.                     *)
(***************************************************************************)
MemoryIndex_truncate ==
    /\ catalogFile' = truncate(catalogFile)
    /\ lastOp' = "truncate"
    /\ lastArg' = Args(<<>>, 0, FALSE)
    /\ lastRet' = Returned("None", <<>>, <<>>)
    /\ embedCalls' = 0
    /\ lastVector' = <<>>
    /\ UNCHANGED <<slotFile, indexMem, indexFile, pendingSaved, issuedIds>>

(***************************************************************************)
(* MemoryIndex.get_episode(episode_id) on the controller's catalog.        *)
(***************************************************************************)
MemoryIndex_get_episode(episode_id) ==
    LET doc == get_episode(catalogFile, episode_id)
    IN  /\ lastOp' = "get_episode"
        /\ lastArg' = [episode_id |-> episode_id]
        /\ lastRet' = IF doc # <<>> THEN Returned("dict", doc, <<>>)
                      ELSE Returned("None", <<>>, <<>>)
        /\ embedCalls' = 0
        /\ lastVector' = <<>>
        /\ UNCHANGED <<stores, pendingSaved, issuedIds>>

(***************************************************************************)
(* Agent.run: run_reflection() then run_action(), one action for each call *)
(* they make to the MemoryController.  An exception ends the run.          *)
(***************************************************************************)
\* best_k of the query run_action makes
AgentBestK == 1

\* run_reflection up to its return when nothing is pending: the pending
\* episode is read
run_reflection_read ==
    /\ agent.pc = "idle"
    /\ get_current_episode
    /\ agent' = [pc        |-> IF lastRet'.kind = "None" THEN "run_action" ELSE "reflect",
                 episode   |-> lastRet'.val,
                 read      |-> lastRet'.val,
                 finalized |-> <<>>,
                 calls     |-> <<"get_current_episode">>,
                 records   |-> agent.records]

\* mutant of run_reflection_finalize: the episode read is not finalized
run_reflection_skipped(reflection, stop) ==
    /\ agent.pc = "reflect"
    /\ stop = "none"
    /\ agent' = [agent EXCEPT !.pc = "run_action"]
    /\ UNCHANGED <<stores, lastOp, lastArg, lastRet, pendingSaved,
                   embedCalls, lastVector, issuedIds>>

\* mutant of run_reflection_finalize: the pending episode is kept in its slot
run_reflection_keeping(reflection, stop) ==
    LET finished == [agent.episode[1] EXCEPT !.reflection = reflection]
    IN  /\ agent.pc = "reflect"
        /\ save_finished_episode(finished, FALSE, stop)
        /\ agent' = [agent EXCEPT
                        !.pc = IF stop = "none" THEN "run_action" ELSE "idle",
                        !.episode = <<finished>>,
                        !.finalized = IF stop = "none" THEN <<next_id(catalogFile)>>
                                      ELSE <<>>,
                        !.calls = Append(@, "save_finished_episode"),
                        !.records = @ + 1]

\* the rest of run_reflection: the reflection is attached to the episode read
\* and the episode is finalized, remove_current left at its default
run_reflection_finalize(reflection, stop) ==
    LET finished == [agent.episode[1] EXCEPT !.reflection = reflection]
    IN  /\ agent.pc = "reflect"
        /\ save_finished_episode(finished, TRUE, stop)
        /\ agent' = [agent EXCEPT
                        !.pc = IF stop = "none" THEN "run_action" ELSE "idle",
                        !.episode = <<finished>>,
                        !.finalized = IF stop = "none" THEN <<next_id(catalogFile)>>
                                      ELSE <<>>,
                        !.calls = Append(@, "save_finished_episode"),
                        !.records = @ + 1]

\* run_action up to the query: a new episode with no action is created and
\* the episodes similar to it are retrieved
run_action_retrieve(unique_id, perception) ==
    LET created == [unique_id  |-> unique_id,
                    experience |-> [perception |-> perception, action |-> None],
                    reflection |-> None]
    IN  /\ agent.pc = "run_action"
        /\ get_similar_episodes(created, AgentBestK)
        /\ agent' = [agent EXCEPT
                        !.pc = IF lastRet'.kind = "raise" THEN "idle" ELSE "choose",
                        !.episode = <<created>>,
                        !.calls = Append(@, "get_similar_episodes")]

\* the rest of run_action: the action chosen is executed, set on the episode,
\* and the episode is saved as the pending one
run_action_save(action) ==
    LET acted == [agent.episode[1] EXCEPT !.experience.action = action]
    IN  /\ agent.pc = "choose"
        /\ save_current_episode(acted)
        /\ agent' = [agent EXCEPT
                        !.pc = "idle",
                        !.episode = <<acted>>,
                        !.calls = Append(@, "save_current_episode"),
                        !.records = 0]

\* an exception of the news clients, the model or the tool call ends the run
\* between two calls to the MemoryController
run_raise ==
    /\ agent.pc \in {"reflect", "run_action", "choose"}
    /\ agent' = [agent EXCEPT !.pc = "idle"]
    /\ UNCHANGED <<stores, lastOp, lastArg, lastRet, pendingSaved,
                   embedCalls, lastVector, issuedIds>>

(***************************************************************************)
(* Specifications.                                                         *)
(***************************************************************************)
\* the operations of MemoryController, each completing or raising
SaveCurrent ==
    \E episode \in Episodes : save_current_episode(episode)

SaveFinished ==
    \E episode \in Episodes, remove_current \in BOOLEAN, stop \in StopPoints :
        save_finished_episode(episode, remove_current, stop)

GetSimilar ==
    \E episode \in Episodes, best_k \in 1..MaxK :
        get_similar_episodes(episode, best_k)

Next ==
    \/ MemoryControllerInit /\ UNCHANGED <<agent, outside>>
    \/ SaveCurrent /\ UNCHANGED <<agent, outside>>
    \/ SaveFinished /\ UNCHANGED <<agent, outside>>
    \/ get_current_episode /\ UNCHANGED <<agent, outside>>
    \/ GetSimilar /\ UNCHANGED <<agent, outside>>

Spec == Init /\ [][Next]_vars

\* the operations of MemoryController, every one completing
SaveFinishedOK ==
    \E episode \in Episodes, remove_current \in BOOLEAN :
        save_finished_episode(episode, remove_current, "none")

NextOK ==
    \/ MemoryControllerInit /\ UNCHANGED <<agent, outside>>
    \/ SaveCurrent /\ UNCHANGED <<agent, outside>>
    \/ SaveFinishedOK /\ UNCHANGED <<agent, outside>>
    \/ get_current_episode /\ UNCHANGED <<agent, outside>>
    \/ GetSimilar /\ UNCHANGED <<agent, outside>>

SpecOK == Init /\ [][NextOK]_vars

\* save_finished_episode when the embedding provider returns a vector that
\* is not of the index's dimension
SaveFinishedMismatch ==
    \E episode \in Episodes, remove_current \in BOOLEAN :
        save_finished_episode(episode, remove_current, "dimension")

\* the operations of MemoryController, completing unless the provider returns
\* such a vector
NextDim ==
    \/ MemoryControllerInit /\ UNCHANGED <<agent, outside>>
    \/ SaveCurrent /\ UNCHANGED <<agent, outside>>
    \/ SaveFinishedOK /\ UNCHANGED <<agent, outside>>
    \/ SaveFinishedMismatch /\ UNCHANGED <<agent, outside>>
    \/ get_current_episode /\ UNCHANGED <<agent, outside>>
    \/ GetSimilar /\ UNCHANGED <<agent, outside>>

SpecDim == Init /\ [][NextDim]_vars

\* save_finished_episode while every index entry has its catalog record:
\* once the catalog was truncated under a non-empty index, nothing more is
\* finalized, which bounds the entries without a record to those of one
\* truncate
SaveFinishedIndexed ==
    /\ Len(indexMem) = len(catalogFile)
    /\ SaveFinishedOK

\* the operations of MemoryController, every one completing, and truncate
\* of its MemoryIndex
NextStore ==
    \/ MemoryControllerInit /\ UNCHANGED <<agent, outside>>
    \/ SaveCurrent /\ UNCHANGED <<agent, outside>>
    \/ SaveFinishedIndexed /\ UNCHANGED <<agent, outside>>
    \/ get_current_episode /\ UNCHANGED <<agent, outside>>
    \/ GetSimilar /\ UNCHANGED <<agent, outside>>
    \/ MemoryIndex_truncate /\ UNCHANGED <<agent, outside>>

SpecStore == Init /\ [][NextStore]_vars

\* the same with get_memory_count called between the other operations
NextRead ==
    \/ NextStore
    \/ MemoryController_get_memory_count /\ UNCHANGED <<agent, outside>>

SpecRead == Init /\ [][NextRead]_vars

\* runs of the agent, one after the other, in one process or each in a new
\* one; a run ends when it is through or when a call raises
RunReflectionFinalize ==
    \E reflection \in Reflections \ {None}, stop \in StopPoints :
        run_reflection_finalize(reflection, stop)

RunActionRetrieve ==
    \E unique_id \in Uids, perception \in Perceptions :
        run_action_retrieve(unique_id, perception)

RunActionSave ==
    \E action \in Actions \ {None} : run_action_save(action)

NextAgent ==
    \/ agent.pc = "idle" /\ MemoryControllerInit /\ UNCHANGED <<agent, outside>>
    \/ run_reflection_read /\ UNCHANGED outside
    \/ RunReflectionFinalize /\ UNCHANGED outside
    \/ RunActionRetrieve /\ UNCHANGED outside
    \/ RunActionSave /\ UNCHANGED outside
    \/ run_raise /\ UNCHANGED outside

SpecAgent == Init /\ [][NextAgent]_vars

\* the ids get_episode is called with: those a catalog of the model may hold,
\* one that none holds, and the label of no neighbour
EpisodeIds == NoNeighbour .. MaxDocs

GetEpisode ==
    \E episode_id \in EpisodeIds : MemoryIndex_get_episode(episode_id)

\* the catalog and the index over their lifetime: episodes are finalized and
\* queried, every call completing, the catalog is read by id and truncated,
\* and the process is restarted; the pending-episode table stays empty
NextIndex ==
    \/ MemoryControllerInit /\ UNCHANGED <<agent, outside>>
    \/ SaveFinishedOK /\ UNCHANGED <<agent, outside>>
    \/ GetSimilar /\ UNCHANGED <<agent, outside>>
    \/ GetEpisode /\ UNCHANGED <<agent, outside>>
    \/ MemoryIndex_truncate /\ UNCHANGED <<agent, outside>>

SpecIndex == Init /\ [][NextIndex]_vars

(***************************************************************************)
(* Calls on the portfolio.  A call ends in ret; a Portfolio method that    *)
(* returned is remembered in succeeded by the type of transaction it is    *)
(* (close_position sells) and its symbol.                                  *)
(***************************************************************************)
Call(op, method_name, symbol, amount, quote, ret) ==
    [op |-> op, method_name |-> method_name, symbol |-> symbol,
     amount |-> amount, quote |-> quote, ret |-> ret]

Called(type, symbol, out) ==
    /\ Len(succeeded) < MaxCalls
    /\ portfolio' = out.result
    /\ succeeded' = IF out.ret = "ok"
                    THEN Append(succeeded, [type |-> type, symbol |-> symbol])
                    ELSE succeeded
    /\ UNCHANGED <<memory, rendering, uuidDefault, createdIds, beside>>

Portfolio_buy(symbol, investment_amount, quote) ==
    LET out == buy(portfolio, symbol, investment_amount, quote)
    IN  /\ Called("BUY", symbol, out)
        /\ lastCall' = Call("buy", "", symbol, investment_amount, quote, out.ret)

Portfolio_sell(symbol, liquidation_amount, quote) ==
    LET out == sell(portfolio, symbol, liquidation_amount, quote)
    IN  /\ Called("SELL", symbol, out)
        /\ lastCall' = Call("sell", "", symbol, liquidation_amount, quote, out.ret)

Portfolio_close_position(symbol, quote) ==
    LET out == close_position(portfolio, symbol, quote)
    IN  /\ Called("SELL", symbol, out)
        /\ lastCall' = Call("close_position", "", symbol, 0, quote, out.ret)

\* Position.sell called on a position of the portfolio, for the shares that
\* amount buys at price
Position_sell_called(symbol, amount, price) ==
    /\ symbol \in DOMAIN portfolio.positions
    /\ LET out == Position_sell(portfolio.positions[symbol], price,
                                Shares(amount, price))
       IN  /\ portfolio' = [portfolio EXCEPT !.positions[symbol] = out.result]
           /\ lastCall' = Call("Position.sell", "", symbol, amount,
                               Quote(price), out.ret)
    /\ UNCHANGED <<succeeded, memory, rendering, uuidDefault, createdIds, beside>>

\* the names a tool call can carry: the three tools offered to the model,
\* another method of Portfolio, and a name that is no attribute of it
ToolNames == {"buy", "sell", "wait", "close_position", "liquidate"}

ActionTypes == {"buy", "sell", "wait"}

\* ActionType.from_str
from_str(action_str) ==
    IF action_str \in ActionTypes THEN "ok" ELSE "ValueError"

\* Agent.execute_tool_call with arguments symbol, buy_value or sell_value,
\* and expectation: the attribute of the portfolio named by the tool call
\* is looked up and called with those of the arguments its signature has,
\* and the name becomes an ActionType afterwards
execute_tool_call(method_name, symbol, quote) ==
    LET out == CASE method_name \in {"buy", "sell"} ->
                        Done(portfolio, "TypeError")
                 [] method_name = "close_position" ->
                        close_position(portfolio, symbol, quote)
                 [] OTHER -> Done(portfolio, "AttributeError")
        ran == method_name = "close_position" /\ out.ret = "ok"
    IN  /\ Len(succeeded) < MaxCalls
        /\ portfolio' = out.result
        /\ succeeded' = IF ran
                        THEN Append(succeeded, [type |-> "SELL", symbol |-> symbol])
                        ELSE succeeded
        /\ lastCall' = Call("execute_tool_call", method_name, symbol, 0, quote,
                            IF out.ret = "ok" THEN from_str(method_name)
                            ELSE out.ret)
        /\ UNCHANGED <<memory, rendering, uuidDefault, createdIds, beside>>

Buy ==
    \E symbol \in Symbols, amount \in Amounts, quote \in get_price_for_symbol :
        Portfolio_buy(symbol, amount, quote)

Sell ==
    \E symbol \in Symbols, amount \in Amounts, quote \in get_price_for_symbol :
        Portfolio_sell(symbol, amount, quote)

ClosePosition ==
    \E symbol \in Symbols, quote \in get_price_for_symbol :
        Portfolio_close_position(symbol, quote)

PositionSell ==
    \E symbol \in Symbols, amount \in Amounts, price \in Prices :
        Position_sell_called(symbol, amount, price)

ExecuteToolCall ==
    \E method_name \in ToolNames, symbol \in Symbols,
       quote \in get_price_for_symbol :
        execute_tool_call(method_name, symbol, quote)

\* the amounts a call can be made with when nothing restricts them
AnyAmounts == {-MaxAmount, 0, MaxAmount}

\* the cash and the quantities are within what MaxCalls calls of MaxAmount
\* can make of them: a call that raises after it moved cash or shares is not
\* counted by MaxCalls
InRange ==
    /\ Abs(portfolio.total_cash - Euros(InitialCash))
           <= Euros(MaxCalls * MaxAmount)
    /\ \A s \in DOMAIN portfolio.positions :
           Abs(portfolio.positions[s].quantity) <= Euros(MaxCalls * MaxAmount)

BuyAny ==
    \E symbol \in Symbols, amount \in AnyAmounts,
       quote \in get_price_for_symbol :
        InRange /\ Portfolio_buy(symbol, amount, quote)

SellAny ==
    \E symbol \in Symbols, amount \in AnyAmounts,
       quote \in get_price_for_symbol :
        InRange /\ Portfolio_sell(symbol, amount, quote)

\* buy, sell and close_position with any amount
NextAmounts ==
    \/ BuyAny
    \/ SellAny
    \/ ClosePosition

SpecAmounts == Init /\ [][NextAmounts]_vars

NextPortfolio ==
    \/ Buy
    \/ Sell
    \/ ClosePosition
    \/ PositionSell
    \/ ExecuteToolCall

SpecPortfolio == Init /\ [][NextPortfolio]_vars

(***************************************************************************)
(* Rendering an episode to text, with every optional part of the episode   *)
(* told apart.  An Optional value is a sequence, <<>> for None and <<x>>   *)
(* for x; a text is the sequence of the parts that str joins.  EpisodeStr  *)
(* above is the same rendering over the parts the memory tells apart.      *)
(***************************************************************************)
Optional(S) == {<<>>} \cup {<<x>> : x \in S}

\* portfolio.Transaction and portfolio.Position as an episode carries them
Transactions == [transaction_type : {"BUY"}, symbol : {"AAPL"}]
PosteriorPositions == [symbol : {"AAPL"}]

\* memorymodel.Action
FullAction ==
    [action_type : {"BUY", "SELL", "WAIT"},
     transaction : Optional(Transactions),
     expectation : {"e1", "e2"}]

\* memorymodel.Experience
FullExperience ==
    [date : {"d1"}, news_of_the_day : {"n1", "n2"}, portfolio : {"pf1"},
     action : Optional(FullAction)]

\* memorymodel.Reflection
FullReflection ==
    [posterior_position : Optional(PosteriorPositions),
     expectation_evaluation : {"v1"}, learning : {"l1"}]

\* memorymodel.Episode
FullEpisode ==
    [experience : FullExperience, reflection : Optional(FullReflection)]

\* what reading an attribute of None gives
AttributeError == "AttributeError"

\* Transaction.__str__
Transaction_str(t) ==
    "Action: " \o t.transaction_type \o " " \o t.symbol

\* Position.__str__
Position_str(p) ==
    "Symbol: " \o p.symbol

Experience_str_unguarded(x) ==
    <<"Date: " \o x.date,
      "News of the Day: " \o x.news_of_the_day,
      IF x.action = <<>> THEN AttributeError
      ELSE "Action: " \o x.action[1].action_type,
      IF x.action = <<>> THEN AttributeError
      ELSE "Transaction: "
               \o (IF x.action[1].transaction # <<>>
                   THEN Transaction_str(x.action[1].transaction[1])
                   ELSE "None"),
      "Portfolio Summary: " \o x.portfolio,
      IF x.action = <<>> THEN AttributeError
      ELSE "Expectation: " \o x.action[1].expectation>>

\* Experience.__str__
Experience_str(x) ==
    <<"Date: " \o x.date,
      "News of the Day: " \o x.news_of_the_day,
      "Action: " \o (IF x.action # <<>> THEN x.action[1].action_type
                     ELSE "None"),
      "Transaction: "
          \o (IF x.action # <<>> /\ x.action[1].transaction # <<>>
              THEN Transaction_str(x.action[1].transaction[1])
              ELSE "None"),
      "Portfolio Summary: " \o x.portfolio,
      "Expectation: " \o (IF x.action # <<>> THEN x.action[1].expectation
                          ELSE "None")>>

\* Reflection.__str__
Reflection_str(r) ==
    <<"Posterior Position: "
          \o (IF r.posterior_position # <<>>
              THEN Position_str(r.posterior_position[1])
              ELSE "None"),
      "Expectation Evaluation: " \o r.expectation_evaluation,
      "Learning: " \o r.learning>>

\* Episode.__str__
Episode_str(e) ==
    <<"EXPERIENCE:">> \o Experience_str(e.experience) \o <<"REFLECTION:">>
        \o (IF e.reflection # <<>> THEN Reflection_str(e.reflection[1])
            ELSE <<"None">>)

\* an episode, not rendered yet
InitStr ==
    /\ InitMemory
    /\ InitLedger
    /\ rendering \in {[episode |-> <<e>>, text |-> <<>>] : e \in FullEpisode}
    /\ uuidDefault = 0
    /\ createdIds = <<>>
    /\ InitBeside

\* str(episode)
Render ==
    /\ rendering.text = <<>>
    /\ rendering' = [rendering EXCEPT !.text = Episode_str(rendering.episode[1])]
    /\ UNCHANGED <<memory, ledger, uuidDefault, createdIds, beside>>

NextStr == Render

SpecStr == InitStr /\ [][NextStr]_vars

(***************************************************************************)
(* Episode.unique_id.  Its default, str(uuid4()), is evaluated when the    *)
(* class body of Episode runs, once in a process; uuid4 is modelled as     *)
(* giving a value that no episode has had.                                 *)
(***************************************************************************)
MaxUuids == 4
MaxEpisodes == 3

Uuids == 1 .. MaxUuids

\* uuid4(): the values it can give
uuid4 == Uuids \ ({uuidDefault} \cup {createdIds[i] : i \in DOMAIN createdIds})

\* the process starts: memorymodel is imported and the class Episode defined
InitUid ==
    /\ InitMemory
    /\ InitLedger
    /\ rendering = NoRendering
    /\ uuidDefault \in Uuids
    /\ createdIds = <<>>
    /\ InitBeside

\* Episode(experience=experience), as run_action creates it
Episode_created ==
    /\ Len(createdIds) < MaxEpisodes
    /\ createdIds' = Append(createdIds, uuidDefault)
    /\ UNCHANGED <<memory, ledger, rendering, uuidDefault, beside>>

\* another run: a new process imports memorymodel
import_memorymodel ==
    /\ \E u \in uuid4 : uuidDefault' = u
    /\ UNCHANGED <<memory, ledger, rendering, createdIds, beside>>

NextUid ==
    \/ Episode_created
    \/ import_memorymodel

SpecUid == InitUid /\ [][NextUid]_vars

(***************************************************************************)
(* Properties.                                                             *)
(***************************************************************************)
\* the ids an index holds
IndexIds(index) ==
    {index[i].id : i \in 1..Len(index)}

\* no id is held twice
IdsOnce(index) ==
    \A i, j \in 1..Len(index) : i # j => index[i].id # index[j].id

\* every entry is the embedding of the catalog record of its id
EntriesOfRecords(index) ==
    \A i \in 1..Len(index) :
        /\ index[i].id \in DOMAIN catalogFile
        /\ index[i].vec =
               get_text_embedding(EpisodeStr(ModelValidate(catalogFile[index[i].id])))

\* the episode the last call was given
LastEpisode ==
    lastArg.episode[1]

\* the embedding of the episode the last call was given
LastEmbedding ==
    get_text_embedding(EpisodeStr(LastEpisode))

\* C1: after any sequence of completed MemoryController operations the ids in
\* the vector index, in memory and in its file, are the document ids of the
\* catalog, each held once, and every entry is the embedding of the record
\* of its id: no entry is there for an episode that was not finalized.
C1_IndexIdsAreCatalogIds ==
    /\ IndexIds(indexMem) = DOMAIN catalogFile
    /\ IdsOnce(indexMem)
    /\ EntriesOfRecords(indexMem)
    /\ IF catalogFile = EmptyTable THEN indexFile = NoFile
       ELSE indexFile = write_index(indexMem)

\* C1 witness: two finalized episodes and a pending one that was not
C1_Witness ==
    /\ lastOp = "save_finished_episode"
    /\ len(catalogFile) = 2
    /\ slotFile # EmptyTable
    /\ Len(indexMem) = 2

\* C2: wherever save_finished_episode stops, every id in the index file (and
\* in the index in memory) is the id of a catalog record, once, with that
\* record's embedding; what may be missing is the entry of a record.
C2_NoOrphanIndexEntry ==
    /\ IndexIds(indexFile.entries) \subseteq DOMAIN catalogFile
    /\ IdsOnce(indexFile.entries)
    /\ EntriesOfRecords(indexFile.entries)
    /\ IndexIds(indexMem) \subseteq DOMAIN catalogFile
    /\ IdsOnce(indexMem)
    /\ EntriesOfRecords(indexMem)

\* C2 witness: a finalize that raised and left a record with no entry in the
\* index file, beside a record that has one
C2_Witness ==
    /\ lastOp = "save_finished_episode"
    /\ lastRet.kind = "raise"
    /\ \E id \in DOMAIN catalogFile : id \notin IndexIds(indexFile.entries)
    /\ IndexIds(indexFile.entries) # {}

\* C3: when save_finished_episode(e), remove_current left at its default,
\* returns for an episode with a reflection, the catalog holds a record equal
\* to e under the id the insert returned (the largest), the index holds e's
\* embedding under that id in memory and in its file, a search for that
\* embedding with k = 1 may answer that id, and get_current_episode() is None.
C3_FinalizePostcondition ==
    (/\ lastOp = "save_finished_episode"
     /\ lastRet.kind # "raise"
     /\ lastArg.remove_current
     /\ LastEpisode.reflection # None)
    => LET id == MaxOf(DOMAIN catalogFile)
           entry == [vec |-> LastEmbedding, id |-> id]
       IN  /\ get_episode(catalogFile, id) # <<>>
           /\ ModelValidate(get_episode(catalogFile, id)[1]) = LastEpisode
           /\ \E i \in 1..Len(indexMem) : indexMem[i] = entry
           /\ indexFile.state = "ok"
           /\ \E i \in 1..Len(indexFile.entries) : indexFile.entries[i] = entry
           /\ <<id>> \in get_similar_embeddings(indexMem, LastEmbedding, 1)
           /\ current_episode(slotFile).kind = "None"
           /\ lastRet = Returned("None", <<>>, <<>>)

\* C3 witness: a second episode finalized, after a finalize that raised
C3_Witness ==
    /\ lastOp = "save_finished_episode"
    /\ lastRet.kind # "raise"
    /\ lastArg.remove_current
    /\ LastEpisode.reflection # None
    /\ len(catalogFile) = 2
    /\ Len(indexMem) = 1

\* C4: get_current_episode() returns the episode of the most recent
\* save_current_episode since the slot was cleared, and None when there was
\* no such call.
C4_CurrentIsLastSaved ==
    lastOp = "get_current_episode"
    => lastRet = IF pendingSaved = <<>> THEN Returned("None", <<>>, <<>>)
                 ELSE Returned("Episode", pendingSaved, <<>>)

\* C4 witness: two different episodes saved one after the other, then read
C4_Witness ==
    /\ lastOp = "get_current_episode"
    /\ len(slotFile) = 2
    /\ slotFile[1] # slotFile[2]
    /\ lastRet.kind = "Episode"

\* C5: the pending-episode store holds at most one episode in every
\* reachable state.
C5_AtMostOnePending ==
    len(slotFile) <= 1

\* C6: get_similar_episodes called on a catalog with no records returns
\* None, not a list, and does not raise, whatever the index and the slot hold.
C6_EmptyCatalogGivesNone ==
    (lastOp = "get_similar_episodes" /\ catalogFile = EmptyTable)
    => lastRet = Returned("None", <<>>, <<>>)

\* C6 witness: a query on an empty catalog while the index and the slot are
\* not empty
C6_Witness ==
    /\ lastOp = "get_similar_episodes"
    /\ catalogFile = EmptyTable
    /\ indexMem # <<>>
    /\ slotFile # EmptyTable
    /\ lastRet.kind = "None"

\* the squared distance of the index entry at position j to the last query
QueryDistance(j) ==
    L2sqr(indexMem[j].vec, LastEmbedding)

\* C7: when the index holds at least k entries, get_similar_episodes(query,
\* k) returns k episodes: those of k different index entries, in ascending
\* distance to the query embedding, no entry left out being nearer than one
\* returned, each the catalog record of the id of its entry.
C7_NearestFirst ==
    (/\ lastOp = "get_similar_episodes"
     /\ catalogFile # EmptyTable
     /\ Len(indexMem) >= lastArg.best_k)
    => /\ lastRet.kind = "list"
       /\ \E p \in [1..lastArg.best_k -> 1..Len(indexMem)] :
           /\ \A i, j \in DOMAIN p : i # j => p[i] # p[j]
           /\ \A i, j \in DOMAIN p : i < j => QueryDistance(p[i]) <= QueryDistance(p[j])
           /\ \A i \in DOMAIN p, j \in 1..Len(indexMem) :
                  (\A h \in DOMAIN p : p[h] # j) => QueryDistance(p[i]) <= QueryDistance(j)
           /\ lastRet.lookups = [i \in DOMAIN p |-> indexMem[p[i]].id]
           /\ lastRet.val = [i \in DOMAIN p |->
                                ModelValidate(catalogFile[indexMem[p[i]].id])]

\* C7 witness: the two nearest of three entries at three different distances
C7_Witness ==
    /\ lastOp = "get_similar_episodes"
    /\ lastArg.best_k = 2
    /\ Len(indexMem) = 3
    /\ QueryDistance(1) # QueryDistance(2)
    /\ QueryDistance(2) # QueryDistance(3)
    /\ QueryDistance(1) # QueryDistance(3)
    /\ lastRet.kind = "list"
    /\ Len(lastRet.val) = 2

\* C8: when the index holds n < k entries and the catalog is not empty,
\* get_similar_episodes(query, k) returns the n episodes without raising, and
\* no placeholder id is looked up in the catalog.
C8_FewerThanK ==
    (/\ lastOp = "get_similar_episodes"
     /\ catalogFile # EmptyTable
     /\ Len(indexMem) < lastArg.best_k)
    => /\ lastRet.kind = "list"
       /\ Len(lastRet.val) = Len(indexMem)
       /\ \A i \in DOMAIN lastRet.lookups : lastRet.lookups[i] # NoNeighbour

\* C9: save_finished_episode of an episode without a reflection raises, and
\* leaves the catalog, the index and the slot as they were.
C9_FinalizeNeedsReflection ==
    [][(/\ lastOp' = "save_finished_episode"
        /\ lastArg'.episode[1].reflection = None)
       => (/\ lastRet'.kind = "raise"
           /\ UNCHANGED <<catalogFile, indexMem, indexFile, slotFile>>)]_vars

\* C10: save_current_episode of an episode that has a reflection raises, and
\* leaves the slot as it was.
C10_PendingHasNoReflection ==
    [][(/\ lastOp' = "save_current_episode"
        /\ lastArg'.episode[1].reflection # None)
       => (/\ lastRet'.kind = "raise"
           /\ UNCHANGED slotFile)]_vars

\* C11: every episode get_similar_episodes returns has a reflection: no
\* episode without one is in the catalog or comes back from retrieval.
C11_RetrievedHaveReflection ==
    /\ \A id \in DOMAIN catalogFile : ModelValidate(catalogFile[id]).reflection # None
    /\ (lastOp = "get_similar_episodes" /\ lastRet.kind = "list")
       => \A i \in DOMAIN lastRet.val : lastRet.val[i].reflection # None

\* C12: save_current_episode(e) adds e's document to the pending-episode
\* table and changes nothing else: the catalog, the index in memory and the
\* index file are as before, and get_text_embedding is not called.
C12_SaveCurrentFrame ==
    [][lastOp' = "save_current_episode"
       => (/\ catalogFile' = catalogFile
           /\ len(catalogFile') = len(catalogFile)
           /\ indexMem' = indexMem
           /\ indexFile' = indexFile
           /\ embedCalls' = 0
           /\ all(slotFile') = Append(all(slotFile), ModelDump(lastArg'.episode[1])))]_vars

\* C12 witness: an episode saved as pending beside a catalog and an index
\* that hold a finalized one
C12_Witness ==
    /\ lastOp = "save_current_episode"
    /\ catalogFile # EmptyTable
    /\ indexMem # <<>>
    /\ indexFile.state = "ok"
    /\ slotFile # EmptyTable

\* C13: over the lifetime of a catalog, restarts and MemoryIndex.truncate
\* included, every id save_episode returns is greater than every id it
\* returned before, so no id is given to two records.
C13_IdsStrictlyIncrease ==
    \A i, j \in DOMAIN issuedIds : i < j => issuedIds[i] < issuedIds[j]

\* some id of an answer of the index has no record in the catalog
MissingRecord(ids) ==
    \E i \in DOMAIN ids : ids[i] \notin DOMAIN catalogFile

\* C14: when the index answers a query with an id that has no catalog
\* record, get_similar_episodes raises; a list it returns has one episode for
\* every id of the answer, the record of that id, none left out or empty.
C14_MissingRecordRaises ==
    (lastOp = "get_similar_episodes" /\ catalogFile # EmptyTable)
    => LET answers == get_similar_embeddings(indexMem, LastEmbedding, lastArg.best_k)
       IN  /\ (\A ids \in answers : MissingRecord(ids))
                  => (lastRet.kind = "raise" /\ lastRet.err = "ValidationError")
           /\ lastRet.kind # "raise"
                  => /\ lastRet.kind = "list"
                     /\ lastRet.lookups \in answers
                     /\ ~MissingRecord(lastRet.lookups)
                     /\ Len(lastRet.val) = lastArg.best_k
                     /\ \A i \in DOMAIN lastRet.val :
                            lastRet.val[i] = ModelValidate(catalogFile[lastRet.lookups[i]])

\* C14 witness: the index answered with the id of a record that the catalog
\* lost in a truncate, beside the id of a record it holds, and the query raised
C14_Witness ==
    /\ lastOp = "get_similar_episodes"
    /\ catalogFile # EmptyTable
    /\ lastRet.kind = "raise"
    /\ Len(lastRet.lookups) = 2
    /\ lastRet.lookups[1] \in DOMAIN catalogFile
    /\ lastRet.lookups[2] # NoNeighbour
    /\ lastRet.lookups[2] \notin DOMAIN catalogFile

\* C15: MemoryIndex.get_episode(id) raises NotFound for an id that no
\* catalog record has, and returns no value for it.
C15_GetMissingRaises ==
    (lastOp = "get_episode" /\ lastArg.episode_id \notin DOMAIN catalogFile)
    => (lastRet.kind = "raise" /\ lastRet.err = "NotFound")

\* C16: a record written to the catalog stays as it is: in every step of an
\* operation of MemoryController or MemoryIndex, get_episode gives for each
\* id of the catalog the record it gave before.
C16_RecordsImmutable ==
    [][\A id \in DOMAIN catalogFile :
           get_episode(catalogFile', id) = get_episode(catalogFile, id)]_vars

\* the catalog holds the episode e, as it was or with a reflection attached
Catalogued(table, e) ==
    \E id \in DOMAIN table :
        /\ ModelValidate(table[id]).unique_id = e.unique_id
        /\ ModelValidate(table[id]).experience = e.experience

\* C17: a pending episode leaves the slot only by being finalized: in every
\* step after which the episode get_current_episode would have returned is
\* no longer in the pending table, the catalog holds that episode.
C17_PendingLeavesByFinalize ==
    [][(/\ current_episode(slotFile).kind = "Episode"
        /\ \A id \in DOMAIN slotFile' :
               ModelValidate(slotFile'[id]) # current_episode(slotFile).val[1])
       => Catalogued(catalogFile', current_episode(slotFile).val[1])]_vars

\* the index a new EmbeddingsStore would hold, constructed on the file as it is
Reloaded(file) ==
    EmbeddingsStoreInit(file)

\* C18: an EmbeddingsStore constructed where no index file is holds no
\* entry; each save_embedding that returns has written the index, so that a
\* store constructed afterwards holds what one constructed before would have
\* held and then the (vector, id) added, in this order; no other operation
\* changes what a new store holds, and a newly constructed controller holds it.
C18_IndexReloads ==
    [][/\ indexFile = NoFile => Reloaded(indexFile) = <<>>
       /\ (lastOp' = "save_finished_episode" /\ lastRet'.kind # "raise")
              => Reloaded(indexFile') =
                     Append(Reloaded(indexFile),
                            [vec |-> get_text_embedding(EpisodeStr(lastArg'.episode[1])),
                             id  |-> issuedIds'[Len(issuedIds')]])
       /\ lastOp' # "save_finished_episode"
              => Reloaded(indexFile') = Reloaded(indexFile)
       /\ lastOp' = "__init__" => indexMem' = Reloaded(indexFile)]_vars

\* C18 witness: a controller constructed on the file two saves have written
C18_Witness ==
    /\ lastOp = "__init__"
    /\ indexFile.state = "ok"
    /\ Len(indexMem) = 2
    /\ indexFile.entries = indexMem
    /\ indexMem[1] # indexMem[2]

IsPrefix(s, t) ==
    /\ Len(s) <= Len(t)
    /\ s = SubSeq(t, 1, Len(s))

\* the calls of a run that found a pending episode, and of one that found none
RunWithPending ==
    <<"get_current_episode", "save_finished_episode",
      "get_similar_episodes", "save_current_episode">>

RunWithoutPending ==
    <<"get_current_episode", "get_similar_episodes", "save_current_episode">>

\* C20: the calls one Agent.run makes come in this order: the pending
\* episode is read, finalized with a reflection attached (catalog, index,
\* slot cleared), then similar episodes are retrieved, then the new episode
\* is saved as pending.  The episode finalized in a run is in the catalog and
\* in the index the query of that run searches, which returns a list whose
\* episode is no farther from the query than the finalized one; the slot is
\* empty from the finalize to the save, after which it holds the new episode
\* alone.
C20_RunOrder ==
    /\ IF agent.read # <<>> THEN IsPrefix(agent.calls, RunWithPending)
       ELSE IsPrefix(agent.calls, RunWithoutPending)
    /\ agent.finalized # <<>>
           => /\ agent.finalized[1] \in DOMAIN catalogFile
              /\ ModelValidate(catalogFile[agent.finalized[1]]).experience
                     = agent.read[1].experience
              /\ ModelValidate(catalogFile[agent.finalized[1]]).reflection # None
              /\ agent.finalized[1] \in IndexIds(indexMem)
    /\ agent.pc \in {"run_action", "choose"} => slotFile = EmptyTable
    /\ (agent.pc = "choose" /\ agent.finalized # <<>>)
           => /\ lastOp = "get_similar_episodes"
              /\ lastRet.kind = "list"
              /\ Len(lastRet.val) = AgentBestK
              /\ L2sqr(get_text_embedding(EpisodeStr(lastRet.val[1])), LastEmbedding)
                     <= L2sqr(get_text_embedding(EpisodeStr(
                                  ModelValidate(catalogFile[agent.finalized[1]]))),
                              LastEmbedding)
    /\ (agent.calls # <<>> /\ agent.calls[Len(agent.calls)] = "save_current_episode")
           => /\ len(slotFile) = 1
              /\ current_episode(slotFile) = Returned("Episode", agent.episode, <<>>)

\* C20 witness: a run that read the pending episode, finalized it as the
\* second record of the catalog, retrieved and saved the new pending episode
C20_Witness ==
    /\ agent.pc = "idle"
    /\ agent.calls = RunWithPending
    /\ agent.finalized # <<>>
    /\ len(catalogFile) = 2
    /\ Len(indexMem) = 2
    /\ len(slotFile) = 1

\* C24: an error of a step of save_finished_episode or get_similar_episodes
\* reaches the caller and no later step of the operation runs (after a
\* failed embedding call the index and the slot are as before, after a
\* failed index write or slot truncate the slot is as before, a failed
\* catalog lookup raises); and a MemoryController constructed on an index
\* file that is there but cannot be read raises, it does not start with an
\* empty index.
C24_ErrorsPropagate ==
    [][/\ (lastOp' = "save_finished_episode" /\ lastRet'.err = "APIError")
              => (indexMem' = indexMem /\ indexFile' = indexFile /\ slotFile' = slotFile)
       /\ (lastOp' = "save_finished_episode" /\ lastRet'.err = "OSError")
              => slotFile' = slotFile
       /\ (lastOp' = "get_similar_episodes" /\ lastRet'.kind = "list")
              => \A i \in DOMAIN lastRet'.lookups :
                     lastRet'.lookups[i] \in DOMAIN catalogFile
       /\ (lastOp' = "__init__" /\ indexFile.state = "corrupt")
              => lastRet'.kind = "raise"]_vars

\* C25: when the vector handed to save_embedding is not of the index's
\* dimension, save_embedding raises and the index is as before in memory and
\* in its file, and save_finished_episode, which it is called in, raises and
\* does not clear the pending slot.
C25_DimensionMismatch ==
    [][(/\ lastOp' = "save_finished_episode"
        /\ lastVector' # <<>>
        /\ Len(lastVector') # dimension)
       => (/\ lastRet'.kind = "raise"
           /\ indexMem' = indexMem
           /\ indexFile' = indexFile
           /\ slotFile' = slotFile)]_vars

\* C25 witness: a finalize that was given a vector too long, on a controller
\* with a finalized episode and a pending one
C25_Witness ==
    /\ lastOp = "save_finished_episode"
    /\ Len(lastVector) = dimension + 1
    /\ lastRet.kind = "raise"
    /\ lastArg.remove_current
    /\ indexMem # <<>>
    /\ slotFile # EmptyTable

\* C28: clearing the pending slot is idempotent: save_finished_episode that
\* clears finds the slot empty or not, completes, and leaves it empty;
\* clearing the slot it leaves once more gives the same slot, and a finalize
\* on a slot already empty leaves it as it was.
C28_ClearIdempotent ==
    [][(/\ lastOp' = "save_finished_episode"
        /\ lastArg'.remove_current)
       => (/\ lastRet'.kind # "raise"
           /\ slotFile' = EmptyTable
           /\ truncate(slotFile') = slotFile'
           /\ slotFile = EmptyTable => slotFile' = slotFile)]_vars

\* C28 witness: three episodes finalized with no episode ever pending beside
\* them, each finalize but the first clearing an empty slot
C28_Witness ==
    /\ lastOp = "save_finished_episode"
    /\ lastArg.remove_current
    /\ len(catalogFile) = MaxDocs
    /\ slotFile = EmptyTable

(***************************************************************************)
(* The portfolio.                                                          *)
(***************************************************************************)
\* the position a call is about, before the call
Held == lastCall'.symbol \in DOMAIN portfolio.positions

\* the shares the amount of a call stands for at the price the market gave
Asked == Shares(lastCall'.amount, lastCall'.quote.price)

\* every position holds what it held, the cash and the history are the same
SameHoldings ==
    /\ DOMAIN portfolio'.positions = DOMAIN portfolio.positions
    /\ \A s \in DOMAIN portfolio.positions :
           portfolio'.positions[s].quantity = portfolio.positions[s].quantity
    /\ portfolio'.total_cash = portfolio.total_cash
    /\ portfolio'.transaction_history = portfolio.transaction_history

\* the positions of the other symbols are as they were
OthersUntouched ==
    \A s \in Symbols \ {lastCall'.symbol} :
        /\ s \in DOMAIN portfolio'.positions <=> s \in DOMAIN portfolio.positions
        /\ s \in DOMAIN portfolio.positions
               => portfolio'.positions[s] = portfolio.positions[s]

\* C21: Position.sell and Portfolio.sell of more shares than are held raise
\* ValueError, Portfolio.sell of a symbol with no position raises ValueError,
\* and a sell that raised left every quantity, the cash and the transaction
\* history as they were.
C21_FailedSellChangesNothing ==
    [][lastCall'.op \in {"sell", "Position.sell"} =>
          /\ (Held /\ lastCall'.quote.found
                   /\ Asked > portfolio.positions[lastCall'.symbol].quantity)
                 => lastCall'.ret = "ValueError"
          /\ (lastCall'.op = "sell" /\ ~Held) => lastCall'.ret = "ValueError"
          /\ lastCall'.ret # "ok" => SameHoldings]_vars

C23_HistoryMatchesCalls ==
    /\ Len(portfolio.transaction_history) = Len(succeeded)
    /\ \A i \in DOMAIN succeeded :
           /\ portfolio.transaction_history[i].transaction_type
                  = succeeded[i].type
           /\ portfolio.transaction_history[i].symbol = succeeded[i].symbol

\* a buy and then a sell returned, and the last call raised
C23_Witness ==
    /\ Len(succeeded) = 2
    /\ succeeded[1].type = "BUY"
    /\ succeeded[2].type = "SELL"
    /\ portfolio.transaction_history[2].transaction_type = "SELL"

\* C26: execute_tool_call with a name other than buy, sell and wait ends in
\* an error and leaves the portfolio as it was.
C26_OtherNamesRejected ==
    [][(lastCall'.op = "execute_tool_call"
            /\ lastCall'.method_name \notin ActionTypes)
          => (lastCall'.ret # "ok" /\ portfolio' = portfolio)]_vars

\* C30: a sell of exactly the shares held returns, removes the position,
\* adds the amount to the cash and logs one SELL.
C30_FullSellSucceeds ==
    [][(/\ lastCall'.op = "sell"
        /\ Held
        /\ lastCall'.quote.found
        /\ Asked = portfolio.positions[lastCall'.symbol].quantity)
          => (/\ lastCall'.ret = "ok"
              /\ lastCall'.symbol \notin DOMAIN portfolio'.positions
              /\ portfolio'.total_cash
                     = portfolio.total_cash + Euros(lastCall'.amount)
              /\ Len(portfolio'.transaction_history)
                     = Len(portfolio.transaction_history) + 1)]_vars

(***************************************************************************)
(* Rendering and ids of episodes.                                          *)
(***************************************************************************)
\* C27: str(episode) gives a text for every episode, whichever of action,
\* transaction, reflection and posterior position it has: no part of the
\* text is an error, and a part reads None exactly when the episode lacks
\* what the part shows; so it does for the query episode of run_action,
\* which has neither action nor reflection.
C27_RenderSucceeds ==
    rendering.text # <<>> =>
        LET e == rendering.episode[1]
            x == e.experience
            t == rendering.text
        IN  /\ \A i \in DOMAIN t : t[i] # AttributeError
            /\ x.action = <<>> <=> t[4] = "Action: None"
            /\ (x.action = <<>> \/ x.action[1].transaction = <<>>)
                   <=> t[5] = "Transaction: None"
            /\ x.action = <<>> <=> t[7] = "Expectation: None"
            /\ e.reflection = <<>> <=> (Len(t) = 9 /\ t[9] = "None")
            /\ e.reflection # <<>> =>
                   /\ Len(t) = 11
                   /\ e.reflection[1].posterior_position = <<>>
                          <=> t[9] = "Posterior Position: None"

\* the query episode of run_action has been rendered
C27_Witness ==
    /\ rendering.text # <<>>
    /\ rendering.episode[1].experience.action = <<>>
    /\ rendering.episode[1].reflection = <<>>
    /\ rendering.text[4] = "Action: None"

\* C29: the episodes created without an explicit unique_id all have
\* different ids.
C29_IdsDistinct ==
    \A i, j \in DOMAIN createdIds :
        i # j => createdIds[i] # createdIds[j]

(***************************************************************************)
(* Reads, runs of the agent, and stores shared or kept apart.              *)
(***************************************************************************)
\* C35: a step of get_similar_episodes, get_current_episode or
\* get_memory_count leaves the catalog, the index in memory, the index file
\* and the pending slot as they were, whether the call returns or raises.
C35_ReadsChangeNothing ==
    [][lastOp' \in {"get_similar_episodes", "get_current_episode",
                    "get_memory_count"}
          => (/\ catalogFile' = catalogFile
              /\ indexMem' = indexMem
              /\ indexFile' = indexFile
              /\ slotFile' = slotFile)]_vars

\* a query has raised over a non-empty index, beside a pending episode
C35_Witness ==
    /\ lastOp = "get_similar_episodes"
    /\ lastRet.kind = "raise"
    /\ indexMem # <<>>
    /\ slotFile # EmptyTable

(***************************************************************************)
(* The portfolio, any amounts; the transactions logged.                    *)
(***************************************************************************)
\* C37: after any buy, sell and close_position calls, whatever their
\* amounts, the cash is not negative and every position of the portfolio
\* holds more than nothing.
C37_CashAndQuantitiesPositive ==
    /\ portfolio.total_cash >= 0
    /\ \A s \in DOMAIN portfolio.positions : portfolio.positions[s].quantity > 0

\* C38: a call that logs a transaction moves the cash by price * quantity
\* of that transaction, down for a BUY and up for a SELL, and the
\* transaction's cash_after_transaction is the cash after the call.
C38_LoggedMatchesCash ==
    [][Len(portfolio'.transaction_history) > Len(portfolio.transaction_history)
          => LET t == portfolio'.transaction_history[
                          Len(portfolio'.transaction_history)]
                 moved == portfolio'.total_cash - portfolio.total_cash
             IN  /\ t.cash_after_transaction = portfolio'.total_cash
                 /\ t.transaction_type = "BUY"
                        => moved = - Value(t.quantity, t.price)
                 /\ t.transaction_type = "SELL"
                        => moved = Value(t.quantity, t.price)]_vars

\* C31: over any runs of the agent, failed and repeated finalizes included,
\* no pending episode has more than one catalog record written for it.
C31_OneRecordPerPending ==
    agent.records <= 1

\* C32: with the agent loop as the only writer, the pending store never
\* holds more than one episode, and when a run is through it holds exactly
\* one, the episode the run saved, which has an action and no reflection.
C32_OnePendingAfterRun ==
    /\ len(slotFile) <= 1
    /\ (agent.pc = "idle" /\ agent.calls # <<>>
            /\ agent.calls[Len(agent.calls)] = "save_current_episode")
           => /\ len(slotFile) = 1
              /\ current_episode(slotFile).kind = "Episode"
              /\ current_episode(slotFile).val[1].experience.action # None
              /\ current_episode(slotFile).val[1].reflection = None

\* a run finalized the pending episode of the run before and saved its own
C32_Witness ==
    /\ agent.pc = "idle"
    /\ agent.calls = RunWithPending
    /\ len(slotFile) = 1
    /\ len(catalogFile) >= 1
    /\ current_episode(slotFile).val[1].reflection = None

(***************************************************************************)
(* Two MemoryController instances on the same storage.  Each instance has  *)
(* its own EmbeddingsStore.index, read from the index file when the        *)
(* instance was constructed, and its own TinyDB tables, which cache the    *)
(* next document id after the first insert.  The variables indexMem and    *)
(* controllers.cached are those of the instance that takes the next step;  *)
(* controllers.other holds those of the instance that waits.  The calls    *)
(* of the two instances interleave call by call.                           *)
(***************************************************************************)

\* what the model leaves alone when one of the two instances takes a step
single == <<agent, ledger, rendering, uuidDefault, createdIds, portfolioFile, disk>>

\* the instance that takes the next step is constructed anew
Two_init ==
    /\ MemoryControllerInit
    /\ controllers' = [controllers EXCEPT !.cached = <<>>]
    /\ UNCHANGED single

\* the other instance takes the next step
Two_switch ==
    /\ indexMem' = controllers.other.index
    /\ controllers' = [cached |-> controllers.other.cached,
                       other |-> [index |-> indexMem,
                                  cached |-> controllers.cached]]
    /\ UNCHANGED <<catalogFile, slotFile, indexFile, lastOp, lastArg, lastRet,
                   pendingSaved, embedCalls, lastVector, issuedIds, single>>

\* Table._get_next_id: the id this instance would give its next record is
\* the one the catalog file gives (no id cached yet, or the cached id is
\* the one after the last record of the file)
next_id_fresh ==
    IF controllers.cached = <<>> THEN TRUE
    ELSE controllers.cached[1] = next_id(catalogFile)

\* save_finished_episode of the instance that takes the step, without fault
Two_save_finished_episode ==
    /\ next_id_fresh
    /\ \E episode \in Episodes, remove_current \in BOOLEAN :
           save_finished_episode(episode, remove_current, "none")
    /\ controllers' = [controllers EXCEPT !.cached = <<next_id(catalogFile) + 1>>]
    /\ UNCHANGED single

NextTwo ==
    \/ Two_init
    \/ Two_switch
    \/ Two_save_finished_episode
    \/ SaveCurrent /\ UNCHANGED <<agent, outside>>

SpecTwo == Init /\ [][NextTwo]_vars

\* C33: when two MemoryController instances on the same storage interleave
\* their save_finished_episode calls, every record of the catalog has its
\* entry in the persisted index and the ids given are distinct: no
\* interleaving loses a record or an entry.
C33_NothingLost ==
    /\ IndexIds(indexFile.entries) = DOMAIN catalogFile
    /\ \A i, j \in 1..Len(issuedIds) : issuedIds[i] = issuedIds[j] => i = j

(***************************************************************************)
(* One controller per agent.  A run of an agent constructs the controller  *)
(* of that agent (Agent.__init__), which opens the three files under       *)
(* local_path(agent_name).  The variables catalogFile, slotFile and        *)
(* indexFile are the files of the directory that is open; disk.dirs holds  *)
(* the files of the directories as they were left.                         *)
(***************************************************************************)
\* the three files MemoryController(agent_name) works on
files_of(agent_name) ==
    IF local_path(agent_name) = local_path(disk.name)
    THEN [catalogFile |-> catalogFile, slotFile |-> slotFile,
          indexFile |-> indexFile]
    ELSE disk.dirs[local_path(agent_name)]

\* the episodes an agent saves: unique_id tells whose they are.  The calls
\* are made with the episodes Agent makes them with: a query without
\* action, a pending episode with an action, a finished one with a
\* reflection
EpisodesOf(agent_name) ==
    {[e EXCEPT !.unique_id = agent_name] : e \in Episodes}

\* what the model leaves alone when the controller of an agent takes a step
apart == <<agent, ledger, rendering, uuidDefault, createdIds, portfolioFile,
           controllers>>

\* MemoryController(agent_name): the directory of the agent is opened, the
\* index is read from its index file
MemoryController_init(agent_name) ==
    LET left == [disk.dirs EXCEPT ![local_path(disk.name)] = files_of(disk.name)]
        opened == left[local_path(agent_name)]
    IN  /\ disk' = [name |-> agent_name, dirs |-> left]
        /\ catalogFile' = opened.catalogFile
        /\ slotFile' = opened.slotFile
        /\ indexFile' = opened.indexFile
        /\ indexMem' = EmbeddingsStoreInit(opened.indexFile)
        /\ pendingSaved' = current_episode(opened.slotFile).val
        /\ lastOp' = "__init__"
        /\ lastArg' = Args(<<>>, 0, FALSE)
        /\ lastRet' = Returned("None", <<>>, <<>>)
        /\ embedCalls' = 0
        /\ lastVector' = <<>>
        /\ UNCHANGED <<issuedIds, apart>>

AgentsInit ==
    \E agent_name \in AgentNames : MemoryController_init(agent_name)

\* the documents in the catalogs and pending stores of all agents
docs_on_disk ==
    LET RECURSIVE count(_)
        count(S) ==
            IF S = {} THEN 0
            ELSE LET n == CHOOSE x \in S : TRUE
                 IN  len(files_of(n).catalogFile) + len(files_of(n).slotFile)
                         + count(S \ {n})
    IN  count(AgentNames)

AgentsSaveCurrent ==
    /\ docs_on_disk < MaxDocs
    /\ \E episode \in EpisodesOf(disk.name) :
           /\ episode.experience.action # None /\ episode.reflection = None
           /\ save_current_episode(episode)
    /\ UNCHANGED <<apart, disk>>

AgentsSaveFinished ==
    /\ docs_on_disk < MaxDocs
    /\ \E episode \in EpisodesOf(disk.name), remove_current \in BOOLEAN :
           /\ episode.reflection # None
           /\ save_finished_episode(episode, remove_current, "none")
    /\ UNCHANGED <<apart, disk>>

AgentsGetCurrent ==
    get_current_episode /\ UNCHANGED <<apart, disk>>

AgentsGetSimilar ==
    /\ \E episode \in EpisodesOf(disk.name), best_k \in 1..MaxK :
           /\ episode.experience.action = None
           /\ get_similar_episodes(episode, best_k)
    /\ UNCHANGED <<apart, disk>>

NextAgents ==
    \/ AgentsInit
    \/ AgentsSaveCurrent
    \/ AgentsSaveFinished
    \/ AgentsGetCurrent
    \/ AgentsGetSimilar

SpecAgents == Init /\ [][NextAgents]_vars

\* C36: for two different agent names X and Y, no operation of the
\* controller of X changes the catalog, the index or the pending store of
\* Y, and no read of X returns an episode saved under Y.
C36_AgentsIsolated ==
    [][/\ \A y \in AgentNames \ {disk'.name} : files_of(y)' = files_of(y)
       /\ lastRet'.kind \in {"Episode", "list"}
              => \A i \in 1..Len(lastRet'.val) :
                     lastRet'.val[i].unique_id = disk'.name]_vars

\* the controller of agent02 has read episodes of its own while the
\* directory of agent01 holds a catalog record, an index and a pending
\* episode
C36_Witness ==
    /\ disk.name = "agent02"
    /\ lastOp = "get_similar_episodes"
    /\ lastRet.kind = "list"
    /\ files_of("agent01").catalogFile # EmptyTable
    /\ files_of("agent01").slotFile # EmptyTable
    /\ files_of("agent01").indexFile.state = "ok"

(***************************************************************************)
(* A run of the agent with its portfolio.  Agent.__init__ loads the        *)
(* portfolio from its file; run_action executes the tool call on the       *)
(* portfolio in memory, saves the episode with the action as the pending   *)
(* one, and save_state writes the portfolio file last.  A raise at any     *)
(* step ends the run.  The tool call is the one agent_main.py makes of     *)
(* Portfolio: buy and sell return the transaction they logged.             *)
(***************************************************************************)
\* the files and the state of the MemoryController
memory_files == <<catalogFile, slotFile, indexMem, indexFile, lastOp, lastArg,
                  lastRet, pendingSaved, embedCalls, lastVector, issuedIds>>

\* what a step of a run leaves alone
running == <<lastCall, succeeded, rendering, uuidDefault, createdIds,
             controllers, disk>>

\* the Action of an experience as the episode carries it: it stands for its
\* transaction, field by field
ActionOf(transaction) ==
    transaction.transaction_type \o " " \o transaction.symbol
        \o " price " \o ToString(transaction.price)
        \o " quantity " \o ToString(transaction.quantity)
        \o " cash " \o ToString(transaction.cash_after_transaction)

\* Portfolio.to_file: the file holds cash, positions and transaction history
to_file(self) ==
    <<self>>

\* Portfolio.from_file: the portfolio the file holds
from_file(file) ==
    file[1]

\* Agent.__init__ (load_state): the portfolio is read from its file and the
\* MemoryController is constructed
Agent_load_state ==
    /\ agent.pc = "idle"
    /\ MemoryControllerInit
    /\ portfolio' = from_file(portfolioFile)
    /\ UNCHANGED <<agent, portfolioFile, running>>

\* run_action, the tool call: execute_tool_call runs the method on the
\* portfolio in memory; the action with the transaction is set on the
\* episode; a raise of the method ends the run
run_action_execute(method_name, symbol, amount, quote) ==
    LET out == IF method_name = "buy"
               THEN buy(portfolio, symbol, amount, quote)
               ELSE sell(portfolio, symbol, amount, quote)
        history == out.result.transaction_history
    IN  /\ agent.pc = "choose"
        /\ Len(portfolio.transaction_history) < MaxCalls
        /\ portfolio' = out.result
        /\ agent' = IF out.ret = "ok"
                    THEN [agent EXCEPT
                             !.pc = "acted",
                             !.episode = <<[@[1] EXCEPT !.experience.action =
                                               ActionOf(history[Len(history)])]>>,
                             !.calls = Append(@, "execute_tool_call")]
                    ELSE [agent EXCEPT !.pc = "idle"]
        /\ UNCHANGED <<memory_files, portfolioFile, running>>

\* run_action, the save: the episode with its action becomes the pending one
run_action_pending ==
    /\ agent.pc = "acted"
    /\ save_current_episode(agent.episode[1])
    /\ agent' = [agent EXCEPT !.pc = "saved",
                              !.calls = Append(@, "save_current_episode"),
                              !.records = 0]
    /\ UNCHANGED <<portfolio, portfolioFile, running>>

\* run_action, save_state: the portfolio in memory is written to its file
Agent_save_state ==
    /\ agent.pc = "saved"
    /\ portfolioFile' = to_file(portfolio)
    /\ agent' = [agent EXCEPT !.pc = "idle"]
    /\ UNCHANGED <<portfolio, memory_files, running>>

\* a raise ends the run where it is: in run_reflection, before the tool
\* call, between the tool call and the save, or between the save and the
\* write of the portfolio file (print, the dump of the state file)
run_aborted ==
    /\ agent.pc \in {"reflect", "run_action", "choose", "acted", "saved"}
    /\ agent' = [agent EXCEPT !.pc = "idle"]
    /\ UNCHANGED <<portfolio, memory_files, portfolioFile, running>>

RunActionExecute ==
    \E method_name \in {"buy", "sell"}, amount \in Amounts,
       quote \in get_price_for_symbol :
        run_action_execute(method_name, "AAPL", amount, quote)

NextRun ==
    \/ Agent_load_state
    \/ run_reflection_read /\ UNCHANGED outside
    \/ (\E reflection \in Reflections \ {None} :
            run_reflection_finalize(reflection, "none")) /\ UNCHANGED outside
    \/ RunActionRetrieve /\ UNCHANGED outside
    \/ RunActionExecute
    \/ run_action_pending
    \/ Agent_save_state
    \/ run_aborted

SpecRun == Init /\ [][NextRun]_vars

\* the transaction the pending episode of the slot records: the action of
\* the last document, none when the slot is empty
pending_transaction ==
    IF slotFile = EmptyTable THEN <<>>
    ELSE <<current_episode(slotFile).val[1].experience.action>>

\* the transactions of the portfolio file
filed_transactions ==
    {ActionOf(from_file(portfolioFile).transaction_history[i]) :
        i \in 1..Len(from_file(portfolioFile).transaction_history)}

RaisedBeforeSaving ==
    [][(agent.pc \in {"run_action", "choose", "acted"} /\ agent'.pc = "idle")
          => (slotFile' = slotFile /\ portfolioFile' = portfolioFile)]_vars

=============================================================================
